---- MODULE Spec2Model ----
(***************************************************************************)
(* Profile API with cat facts: GET /me and GET /health of src/main.py, the *)
(* business logic of src/services.py and the Settings of src/config.py.    *)
(*                                                                         *)
(* One process serves several inbound requests concurrently.  A GET /me    *)
(* handler suspends exactly once, at `await client.get(CAT_FACT_API)`;     *)
(* everything before and everything after that await runs without          *)
(* interleaving, so each /me request is two atomic steps (get_profile_start*)
(* and get_profile_resume).  GET /health has no await and is one step.     *)
(***************************************************************************)
EXTENDS Integers, Sequences, FiniteSets, TLC

VARIABLES
    env,        \* process environment after load_dotenv(): name -> value
    settings,   \* the Settings class attributes, resolved at import time
    clock,      \* the wall clock, in half seconds since the process started
    inflight,   \* per connection slot: the /me request suspended in it, if any
    observed,   \* the timestamp of the response a client took as its reference
    lastResp    \* the HTTP response most recently sent to a client

vars == <<env, settings, clock, inflight, observed, lastResp>>

----------------------------------------------------------------------------
(* Bounds of the model *)

MaxInFlight == 2      \* connection slots: /me requests suspended at once
MaxClock == 3         \* the clock stops advancing after this many half seconds

Slots == 1..MaxInFlight

----------------------------------------------------------------------------
(* Configuration: src/config.py and get_user_info of src/services.py *)

EnvKeys == {"USER_EMAIL", "USER_NAME", "USER_STACK"}

\* A value the deployment may give each variable in its .env file.
EnvValue(k) ==
    CASE k = "USER_EMAIL" -> "dev@hng.tech"
      [] k = "USER_NAME"  -> "Ada Dev"
      [] k = "USER_STACK" -> "Go/Gin"

\* The environments considered: nothing defined, only the two personal fields
\* defined (USER_STACK left to its default), everything defined.
Environments ==
    {[k \in K |-> EnvValue(k)] : K \in {{}, {"USER_EMAIL", "USER_NAME"}, EnvKeys}}

\* os.getenv(key, default)
getenv(e, key, default) == IF key \in DOMAIN e THEN e[key] ELSE default

\* class Settings: the user fields, evaluated once when config.py is imported
Settings(e) ==
    [USER_EMAIL |-> getenv(e, "USER_EMAIL", "your.email@example.com"),
     USER_NAME  |-> getenv(e, "USER_NAME", "Your Full Name"),
     USER_STACK |-> getenv(e, "USER_STACK", "JavaScript/Nodejs")]

\* get_user_info(): reads the environment on every call
get_user_info(e) ==
    [email |-> getenv(e, "USER_EMAIL", "your.email@example.com"),
     name  |-> getenv(e, "USER_NAME", "Your Full Name"),
     stack |-> getenv(e, "USER_STACK", "Python/FastAPI")]

----------------------------------------------------------------------------
(* Timestamps: get_current_timestamp of src/services.py *)

\* datetime.isoformat() of the instant `now` half seconds after start: the
\* rendered text is <<seconds>> when the microsecond part is zero (isoformat
\* omits the fraction then) and <<seconds, microseconds>> otherwise.
isoformat(now) ==
    IF now % 2 = 0 THEN <<now \div 2>> ELSE <<now \div 2, (now % 2) * 500000>>

\* The instant a rendered timestamp denotes, in microseconds (the parse a
\* client does); the empty text stands for "no timestamp yet".
fromisoformat(ts) ==
    IF Len(ts) = 0 THEN -1
    ELSE ts[1] * 1000000 + (IF Len(ts) = 2 THEN ts[2] ELSE 0)

\* A formatter that loses the whole seconds (only the fraction survives).
get_current_timestamp_wrapping(now) == isoformat(now % 2)

get_current_timestamp(now) == isoformat(now)

----------------------------------------------------------------------------
(* The upstream: what `await client.get(CAT_FACT_API)` can produce *)

FALLBACK_FACT == "Cats are amazing creatures!"

\* JSON scalars, tagged with their Python type after response.json()
JStr(s) == [type |-> "str", v |-> s]
JNull   == [type |-> "NoneType", v |-> "null"]

EmptyObject == [k \in {} |-> JNull]

\* Response bodies: text that is not JSON, a JSON array, and JSON objects
\* (given by their fields).
NotJson      == [kind |-> "text",   fields |-> EmptyObject]
JsonArray    == [kind |-> "array",  fields |-> EmptyObject]
JsonObject(f) == [kind |-> "object", fields |-> f]

FactValues == {JStr("Cats sleep 70% of their lives."), JStr("A group of cats is a clowder."),
               JStr(""), JNull}

Bodies ==
    {NotJson, JsonArray, JsonObject(EmptyObject)}
    \cup {JsonObject([k \in {"fact"} |-> v]) : v \in FactValues}

\* The body sent along with a non-2xx status: a well-formed fact all the same.
ErrorBodies == {JsonObject([k \in {"fact"} |-> JStr("Cats sleep 70% of their lives.")])}

StatusCodes == {200, 201, 301, 404, 500}

is_success(code) == code \in 200..299
is_redirect(code) == code \in 300..399
is_error(code) == code \in 400..599

NetworkErrors == {"All connection attempts failed", "[Errno -2] Name or service not known"}

NoBody == [kind |-> "none", fields |-> EmptyObject]

HttpResponse(code, body) == [kind |-> "response", status_code |-> code, body |-> body, err |-> ""]
ReadTimeout == [kind |-> "timeout", status_code |-> 0, body |-> NoBody, err |-> ""]
ConnectError(msg) == [kind |-> "network", status_code |-> 0, body |-> NoBody, err |-> msg]

\* Everything one outbound GET can end in.
Outcomes ==
    {HttpResponse(c, b) : c \in {c \in StatusCodes : is_success(c)}, b \in Bodies}
    \cup {HttpResponse(c, b) : c \in {c \in StatusCodes : ~is_success(c)}, b \in ErrorBodies}
    \cup {ReadTimeout}
    \cup {ConnectError(m) : m \in NetworkErrors}

\* The httpx behaviours that can tell the outcome apart: only a 3xx status
\* is treated differently by different releases (see raise_for_status).
HttpxVariants(o) == IF is_redirect(o.status_code) THEN BOOLEAN ELSE {TRUE}

----------------------------------------------------------------------------
(* fetch_cat_fact of src/services.py *)

\* What a coroutine ends in: a returned value or a raised HTTPException.
Return(value) == [raised |-> FALSE, value |-> value, status_code |-> 0, detail |-> <<>>]
HTTPException(code, detail) ==
    [raised |-> TRUE, value |-> JNull, status_code |-> code, detail |-> detail]

\* response.raise_for_status(): raises HTTPStatusError for 4xx and 5xx.  For
\* a 3xx response it depends on the installed httpx (`strict`): recent
\* releases raise for every non-2xx status, older ones only for 4xx/5xx.
raise_for_status(code, strict) == is_error(code) \/ (strict /\ ~is_success(code))

\* response.json(): the parsed value, or the text of the exception it raises
json_raises(body) == body.kind = "text"
JSONDecodeErrorText == "Expecting value: line 1 column 1 (char 0)"

\* data.get(key, default) on a dict
\* (variant: data.get(key), which yields None for a missing key)
dict_get_no_default(fields, key, default) ==
    IF key \in DOMAIN fields THEN fields[key] ELSE JNull

\* (variant: the default used whatever the dict holds)
dict_get_only_default(fields, key, default) == default

dict_get(fields, key, default) ==
    IF key \in DOMAIN fields THEN fields[key] ELSE default

\* data.get on a value that is no dict raises AttributeError
AttributeErrorText == "'list' object has no attribute 'get'"

TimeoutDetail == <<"Cat Facts API is taking too long to respond. Please try again.">>
StatusDetail(code) == <<"Cat Facts API returned an error: ", ToString(code)>>
ConnectDetail(msg) == <<"Failed to connect to Cat Facts API: ", msg>>
UnexpectedDetail(msg) == <<"Unexpected error while fetching cat fact: ", msg>>

\* A raised exception: its class, str(e), and for HTTPStatusError the status
\* code of e.response.
Exc(class, msg, code) == [class |-> class, msg |-> msg, status_code |-> code]

\* The classes an `except cls` clause catches an exception of class c by:
\* c itself and its base classes (httpx's exception hierarchy).
Bases(c) ==
    CASE c = "ReadTimeout"     -> {"ReadTimeout", "TimeoutException", "TransportError",
                                   "RequestError", "HTTPError", "Exception"}
      [] c = "ConnectError"    -> {"ConnectError", "NetworkError", "TransportError",
                                   "RequestError", "HTTPError", "Exception"}
      [] c = "HTTPStatusError" -> {"HTTPStatusError", "HTTPError", "Exception"}
      [] c = "JSONDecodeError" -> {"JSONDecodeError", "ValueError", "Exception"}
      [] c = "AttributeError"  -> {"AttributeError", "Exception"}

isinstance(e, cls) == cls \in Bases(e.class)

TryOk(fact) == [raised |-> FALSE, value |-> fact, exc |-> Exc("AttributeError", "", 0)]
TryRaise(e) == [raised |-> TRUE, value |-> JNull, exc |-> e]

\* The try block: client.get, raise_for_status, response.json, data.get.
try_block(outcome, strict) ==
    CASE outcome.kind = "timeout" -> TryRaise(Exc("ReadTimeout", "", 0))
      [] outcome.kind = "network" -> TryRaise(Exc("ConnectError", outcome.err, 0))
      [] outcome.kind = "response" ->
            IF raise_for_status(outcome.status_code, strict)
            THEN TryRaise(Exc("HTTPStatusError", "", outcome.status_code))
            ELSE IF json_raises(outcome.body)
            THEN TryRaise(Exc("JSONDecodeError", JSONDecodeErrorText, 0))
            ELSE IF outcome.body.kind # "object"
            THEN TryRaise(Exc("AttributeError", AttributeErrorText, 0))
            ELSE TryOk(dict_get(outcome.body.fields, "fact", JStr(FALLBACK_FACT)))

\* (variant: `except httpx.RequestError` written before
\* `except httpx.TimeoutException`, which it then shadows)
except_clauses_reordered(e) ==
    IF isinstance(e, "RequestError") THEN HTTPException(503, ConnectDetail(e.msg))
    ELSE IF isinstance(e, "TimeoutException") THEN HTTPException(503, TimeoutDetail)
    ELSE IF isinstance(e, "HTTPStatusError") THEN HTTPException(503, StatusDetail(e.status_code))
    ELSE HTTPException(500, UnexpectedDetail(e.msg))

\* (variant: the upstream's status code handed on to the client)
except_clauses_passthrough(e) ==
    IF isinstance(e, "TimeoutException") THEN HTTPException(503, TimeoutDetail)
    ELSE IF isinstance(e, "HTTPStatusError")
    THEN HTTPException(e.status_code, StatusDetail(e.status_code))
    ELSE IF isinstance(e, "RequestError") THEN HTTPException(503, ConnectDetail(e.msg))
    ELSE HTTPException(500, UnexpectedDetail(e.msg))

\* The except clauses, tried in the order they are written.
except_clauses(e) ==
    IF isinstance(e, "TimeoutException") THEN HTTPException(503, TimeoutDetail)
    ELSE IF isinstance(e, "HTTPStatusError") THEN HTTPException(503, StatusDetail(e.status_code))
    ELSE IF isinstance(e, "RequestError") THEN HTTPException(503, ConnectDetail(e.msg))
    ELSE HTTPException(500, UnexpectedDetail(e.msg))

\* (variant: a body that cannot be read answered with the fallback fact)
fetch_cat_fact_lenient(outcome, strict) ==
    LET t == try_block(outcome, strict) IN
    IF ~t.raised THEN Return(t.value)
    ELSE IF isinstance(t.exc, "HTTPError") THEN except_clauses(t.exc)
    ELSE Return(JStr(FALLBACK_FACT))

fetch_cat_fact(outcome, strict) ==
    LET t == try_block(outcome, strict) IN
    IF t.raised THEN except_clauses(t.exc) ELSE Return(t.value)

----------------------------------------------------------------------------
(* build_profile_response of src/services.py, get_profile of src/main.py *)

build_profile_response(outcome, strict, now, e) ==
    LET cat_fact == fetch_cat_fact(outcome, strict) IN
    IF cat_fact.raised THEN cat_fact
    ELSE Return([status    |-> "success",
                 user      |-> get_user_info(e),
                 timestamp |-> get_current_timestamp(now),
                 fact      |-> cat_fact.value])

\* The HTTP response of GET /me: JSONResponse(content, 200), or the
\* framework's rendering of the re-raised HTTPException, {"detail": ...}.
get_profile(outcome, strict, now, e) ==
    LET response_data == build_profile_response(outcome, strict, now, e) IN
    IF response_data.raised
    THEN [status_code |-> response_data.status_code,
          body |-> [detail |-> response_data.detail]]
    ELSE [status_code |-> 200, body |-> response_data.value]

\* The timestamp a response body carries, the empty text when it has none.
TimestampOf(body) == IF "timestamp" \in DOMAIN body THEN body.timestamp ELSE <<>>

----------------------------------------------------------------------------
(* The process *)

Idle == [pc |-> "idle", attempts |-> 0, after |-> FALSE]

NoCall == [kind |-> "none", status_code |-> 0, body |-> NoBody, err |-> ""]

NoResponse ==
    [endpoint |-> "none", status_code |-> 0, body |-> [detail |-> <<>>],
     upstream |-> NoCall, attempts |-> 0, after |-> FALSE]

Init ==
    /\ env \in Environments
    /\ settings = Settings(env)
    /\ clock = 0
    /\ inflight = [r \in Slots |-> Idle]
    /\ observed = <<>>
    /\ lastResp = NoResponse

\* A client may take the response it has just received as its reference: the
\* timestamp is noted in `observed` (once; later responses leave it alone).
Observe(ts) ==
    observed' \in (IF observed = <<>> /\ ts # <<>> THEN {observed, ts} ELSE {observed})

\* GET /me arrives on a free slot and runs up to `await client.get(...)`:
\* one outbound GET is issued and the handler suspends.  `after` notes
\* whether the request started after the reference response was returned.
get_profile_start(r) ==
    /\ inflight[r].pc = "idle"
    /\ inflight' = [inflight EXCEPT ![r] =
                        [pc |-> "awaiting", attempts |-> 1, after |-> observed # <<>>]]
    /\ UNCHANGED <<env, settings, clock, observed, lastResp>>

\* The rest of the handler, from the outcome of the outbound GET to the
\* response sent to the client.
Respond(r, outcome, strict) ==
    LET resp == get_profile(outcome, strict, clock, env) IN
    /\ lastResp' = [endpoint |-> "/me", status_code |-> resp.status_code,
                    body |-> resp.body, upstream |-> outcome,
                    attempts |-> inflight[r].attempts, after |-> inflight[r].after]
    /\ Observe(TimestampOf(resp.body))
    /\ inflight' = [inflight EXCEPT ![r] = Idle]
    /\ UNCHANGED <<env, settings, clock>>

\* A handler that tries the upstream once more after a failed attempt.
get_profile_resume_retrying(r, outcome, strict) ==
    /\ inflight[r].pc = "awaiting"
    /\ IF fetch_cat_fact(outcome, strict).raised /\ inflight[r].attempts < 2
       THEN /\ inflight' = [inflight EXCEPT ![r].attempts = @ + 1]
            /\ UNCHANGED <<env, settings, clock, observed, lastResp>>
       ELSE Respond(r, outcome, strict)

get_profile_resume(r, outcome, strict) ==
    /\ inflight[r].pc = "awaiting"
    /\ Respond(r, outcome, strict)

\* (variant: a health check that probes the upstream and reports its failure)
health_check_probing ==
    \E o \in Outcomes :
        LET probe == fetch_cat_fact(o, TRUE) IN
        /\ lastResp' = [endpoint |-> "/health",
                        status_code |-> IF probe.raised THEN 503 ELSE 200,
                        body |-> [status |-> IF probe.raised THEN "unhealthy" ELSE "healthy",
                                  timestamp |-> get_current_timestamp(clock)],
                        upstream |-> o, attempts |-> 1, after |-> observed # <<>>]
        /\ Observe(get_current_timestamp(clock))
        /\ UNCHANGED <<env, settings, clock, inflight>>

\* GET /health: no await, one step.
health_check ==
    /\ lastResp' = [endpoint |-> "/health", status_code |-> 200,
                    body |-> [status |-> "healthy",
                              timestamp |-> get_current_timestamp(clock)],
                    upstream |-> NoCall, attempts |-> 0, after |-> observed # <<>>]
    /\ Observe(get_current_timestamp(clock))
    /\ UNCHANGED <<env, settings, clock, inflight>>

\* Time passes (the clock never goes back).
Tick ==
    /\ clock < MaxClock
    /\ clock' = clock + 1
    /\ UNCHANGED <<env, settings, inflight, observed, lastResp>>

Next ==
    \/ \E r \in Slots : get_profile_start(r)
    \/ \E r \in Slots, o \in Outcomes :
          \E strict \in HttpxVariants(o) : get_profile_resume(r, o, strict)
    \/ health_check
    \/ Tick

Spec == Init /\ [][Next]_vars

----------------------------------------------------------------------------
(* Properties *)

Me == lastResp.endpoint = "/me"
Up == lastResp.upstream
UpOk == Up.kind = "response" /\ is_success(Up.status_code)
UpObject == UpOk /\ Up.body.kind = "object"
HasFact == "fact" \in DOMAIN Up.body.fields
UpFact == Up.body.fields["fact"]
Is200WithFact(f) ==
    /\ lastResp.status_code = 200
    /\ "fact" \in DOMAIN lastResp.body
    /\ lastResp.body.fact = f
SomeoneAwaiting == \E r \in Slots : inflight[r].pc = "awaiting"

\* C1: when the upstream answered a /me request's call with a 2xx status and
\* a JSON object holding a string `fact`, that request's response is 200 and
\* its `fact` is exactly that string.
C1_ExactFact ==
    (Me /\ UpObject /\ HasFact /\ UpFact.type = "str") => Is200WithFact(UpFact)

\* C1 witness: such a response, sent while another /me request is suspended.
C1_Witness ==
    /\ Me /\ UpObject /\ HasFact /\ UpFact = JStr("A group of cats is a clowder.")
    /\ Is200WithFact(UpFact)
    /\ SomeoneAwaiting

\* C2: when the upstream answered 2xx with a JSON object that has no `fact`,
\* the response is 200 and its `fact` is the fixed fallback string.
C2_FallbackWhenAbsent ==
    (Me /\ UpObject /\ ~HasFact) => Is200WithFact(JStr("Cats are amazing creatures!"))

C2_Witness == Me /\ UpObject /\ ~HasFact /\ lastResp.status_code = 200

CompletePayload(body) ==
    /\ DOMAIN body = {"status", "user", "timestamp", "fact"}
    /\ body.status = "success"
    /\ DOMAIN body.user = {"email", "name", "stack"}
    /\ \A k \in DOMAIN body.user : body.user[k] # ""
    /\ body.timestamp # <<>>
    /\ body.fact.type = "str"
    /\ body.fact.v # ""

\* C3: every /me response is either a 200 with a complete payload (status
\* "success", user with email, name and stack, a timestamp, a non-empty
\* string fact) or an error body with `detail`.
C3_CompleteOrError ==
    Me => \/ lastResp.status_code = 200 /\ CompletePayload(lastResp.body)
          \/ lastResp.status_code # 200 /\ DOMAIN lastResp.body = {"detail"}

C5_UpstreamErrorIs503 ==
    (Me /\ Up.kind = "response" /\ is_error(Up.status_code)) =>
        /\ lastResp.status_code = 503
        /\ lastResp.body.detail =
              <<"Cat Facts API returned an error: ", ToString(Up.status_code)>>

C5_Witness == Me /\ Up.kind = "response" /\ Up.status_code = 500 /\ lastResp.status_code = 503

HealthOk ==
    lastResp.endpoint = "/health" =>
        /\ lastResp.status_code = 200
        /\ lastResp.body.status = "healthy"
        /\ DOMAIN lastResp.body = {"status", "timestamp"}
        /\ fromisoformat(lastResp.body.timestamp) \in 0..(clock * 500000)

\* C6: in every state GET /health can be served at once, whatever is
\* suspended, its response is 200 "healthy" with a timestamp, and
\* serving it issues no outbound call and touches no /me request.
C6_HealthAlways ==
    /\ [](ENABLED health_check /\ HealthOk)
    /\ [][health_check => (inflight' = inflight /\ lastResp'.upstream = NoCall)]_vars

\* C6 witness: a health response sent while every slot holds a suspended /me.
C6_Witness ==
    /\ lastResp.endpoint = "/health"
    /\ lastResp.status_code = 200
    /\ \A r \in Slots : inflight[r].pc = "awaiting"

\* C7: the `user` of every successful /me response equals the user email,
\* name and stack of Settings.
C7_UserMatchesSettings ==
    (Me /\ lastResp.status_code = 200) =>
        lastResp.body.user = [email |-> settings.USER_EMAIL,
                              name  |-> settings.USER_NAME,
                              stack |-> settings.USER_STACK]

\* C8: a /me request has issued exactly one outbound GET while it is
\* suspended and when it is answered, whatever the outcome.
C8_SingleAttempt ==
    /\ \A r \in Slots : inflight[r].pc = "awaiting" => inflight[r].attempts = 1
    /\ Me => lastResp.attempts = 1

\* C8 witness: a request answered with an error after its one attempt.
C8_Witness == Me /\ lastResp.status_code = 503 /\ lastResp.attempts = 1

HasTimestamp == "timestamp" \in DOMAIN lastResp.body

\* C9: a response to a call that started after the reference response was
\* returned carries a timestamp not earlier than the reference's.
C9_Monotonic ==
    (lastResp.after /\ HasTimestamp) =>
        fromisoformat(lastResp.body.timestamp) >= fromisoformat(observed)

\* C9 witness: a /me response later than a reference that was returned
\* before it started, the two rendered in different shapes.
C9_Witness ==
    /\ Me /\ lastResp.after /\ HasTimestamp
    /\ Len(lastResp.body.timestamp) # Len(observed)
    /\ fromisoformat(lastResp.body.timestamp) > fromisoformat(observed)

Unreadable(body) == body.kind \in {"text", "array"}

====
